---- MODULE Spec2Model ----
(***************************************************************************)
(* Model of cs_virtualmachine.py: one invocation of the Ansible module     *)
(* reconciles one CloudStack virtual machine against a desired state.      *)
(*                                                                         *)
(* The client side follows the methods of AnsibleCloudStackVirtualMachine  *)
(* and main() step by step; one action covers the local code up to and     *)
(* including the next remote call.  The provider side is the CloudStack    *)
(* API as the code uses it: listings, mutating calls answered by a job     *)
(* handle or an in-band errortext, and queryAsyncJobResult.                *)
(*                                                                         *)
(* Reading of the source: the file carries slips that stop it from         *)
(* running (line 401 `vm = self.get_vm():`, line 567 `module.fail_json`,   *)
(* main() calling the methods as free functions).  They are read as the    *)
(* evident spelling: get_vm caches in self.vm like the other get_* lookups,*)
(* `module` is self.module, and main() dispatches to the methods and       *)
(* reports self.result.                                                    *)
(***************************************************************************)
EXTENDS Integers, Sequences, FiniteSets, TLC

\* ---------------------------------------------------------------- bounds
MaxRuns == 2
MaxPolls == 1

\* ------------------------------------------------------- values and dicts
VmStates == {"Starting", "Running", "Stopping", "Stopped",
             "Expunging", "Destroying", "Destroyed", "Error"}

\* str.lower() on the provider's state names
Lower(s) ==
    CASE s = "Starting"   -> "starting"
      [] s = "Running"    -> "running"
      [] s = "Stopping"   -> "stopping"
      [] s = "Stopped"    -> "stopped"
      [] s = "Expunging"  -> "expunging"
      [] s = "Destroying" -> "destroying"
      [] s = "Destroyed"  -> "destroyed"
      [] s = "Error"      -> "error"
      [] OTHER            -> s

\* A Python value held in `vm`, `res` or `job`: None, {}, a virtual machine
\* dict, the response of a mutating call ({jobid}) or an error response
\* ({errortext}).
NoneV == [kind |-> "none", id |-> 0, state |-> "", serviceofferingid |-> 0,
          jobid |-> 0, errortext |-> ""]
EmptyDict == [NoneV EXCEPT !.kind = "empty"]
VmDict(st, so) == [NoneV EXCEPT !.kind = "vm", !.id = 1, !.state = st,
                                !.serviceofferingid = so]
JobResp(j) == [NoneV EXCEPT !.kind = "job", !.jobid = j]
ErrResp(e) == [NoneV EXCEPT !.kind = "err", !.errortext = e]

\* truth value of a Python object: None and {} are false
Truthy(v) == v.kind \notin {"none", "empty"}
\* `k in v` for the keys the code tests
HasKey(v, k) ==
    CASE k = "jobid"     -> v.kind = "job"
      [] k = "errortext" -> v.kind = "err"
      [] k = "state"     -> v.kind = "vm"
      [] k = "id"        -> v.kind = "vm"
      [] OTHER           -> FALSE

\* jobresult of queryAsyncJobResult: errortext, or virtualmachine, or only
\* {success: true}
NoResult == [errortext |-> "", virtualmachine |-> NoneV]
JrHasKey(jr, k) ==
    CASE k = "errortext"      -> jr.errortext # ""
      [] k = "virtualmachine" -> jr.virtualmachine.kind # "none"
      [] OTHER                -> FALSE
JrGet(jr, k) == IF k = "virtualmachine" THEN jr.virtualmachine ELSE NoneV

ApiErrors == {"apierr"}
JobErrors == {"joberr1", "joberr2"}

\* ------------------------------------------------------------ parameters
StateChoices == {"created", "started", "stopped", "restarted",
                 "present", "absent", "destroyed", "expunged"}
\* service offerings the provider lists, in listing order; 3 names none
Offerings == <<1, 2>>
OfferingParams == {0, 2, 3}
\* The parameters only create_vm and scale_vm read keep their default
\* (None) in tasks for the other states, as in EXAMPLES lines 154-163.
Params ==
    {p \in [state : StateChoices, check_mode : BOOLEAN, poll_async : BOOLEAN,
            template : BOOLEAN, iso : BOOLEAN, networks : BOOLEAN,
            service_offering : OfferingParams] :
        p.state \notin {"created", "present"}
        => (~p.template /\ ~p.iso /\ ~p.networks /\ p.service_offering = 0)}

MutatingCalls == {"deployVirtualMachine", "startVirtualMachine",
                  "stopVirtualMachine", "rebootVirtualMachine",
                  "destroyVirtualMachine", "destroyVirtualMachineExpunge",
                  "expungeVirtualMachine", "scaleVirtualMachine"}
PollCall == "queryAsyncJobResult"

VARIABLES
    pvm,        \* provider: the first listed machine of the managed name,
                \* or NoneV
    dup,        \* provider: a second machine matching the name is listed
    jobs,       \* provider: async jobs, jobid = index
    params,     \* module.params and module.check_mode of this invocation
    run,        \* number of invocations started
    pc,         \* position of the invocation in the code
    caller,     \* who called stop_vm / start_vm: "main" or "scale_vm"
    poll_ret,   \* where _poll_job returns to
    self_vm,    \* self.vm, the cache of get_vm
    vm,         \* the local `vm` / `res` handed from step to step
    vm_state,   \* scale_vm's captured vm['state'].lower()
    res,        \* last answer of queryAsyncJobResult
    changed,    \* self.result['changed']
    result,     \* what the invocation reported (exit_json / fail_json)
    calls,      \* remote calls issued by this invocation, in order
    errseen,    \* an error occurred in this invocation (history)
    start,      \* provider state when this invocation started (history)
    prev        \* the previous invocation (history)

pvars == <<pvm, jobs, dup>>
cvars == <<params, run, pc, caller, poll_ret, self_vm, vm, vm_state, res,
           changed, result, calls, errseen, start, prev>>
vars == <<pvm, jobs, dup, params, run, pc, caller, poll_ret, self_vm, vm,
          vm_state, res, changed, result, calls, errseen, start, prev>>

\* ------------------------------------------------------------- call log
RECURSIVE CountIn(_, _)
CountIn(s, S) ==
    IF s = <<>> THEN 0
    ELSE (IF Head(s) \in S THEN 1 ELSE 0) + CountIn(Tail(s), S)
Mutations(s) == CountIn(s, MutatingCalls)
Polls(s) == CountIn(s, {PollCall})

NoReport == [status |-> "none", changed |-> FALSE, kind |-> "", msg |-> "",
             vm_state |-> ""]
NoPrev == [valid |-> FALSE, params |-> [state |-> "created",
             check_mode |-> FALSE, poll_async |-> FALSE, template |-> FALSE,
             iso |-> FALSE, networks |-> FALSE, service_offering |-> 0],
           result |-> NoReport, calls |-> <<>>, errseen |-> FALSE,
           start |-> [pvm |-> NoneV, pending |-> FALSE, njobs |-> 0, dup |-> FALSE]]


\* --------------------------------------------------------------- provider
\* The CloudStack API as the module uses it.  A mutating call is answered
\* at once, by a job handle or by an in-band errortext; its effect happens
\* when the job completes.
NewJob(cmd, arg) == [cmd |-> cmd, arg |-> arg, jobstatus |-> 0,
                     id |-> IF cmd = "deployVirtualMachine" THEN 0
                            ELSE self_vm.id,
                     jobresult |-> NoResult]
PendingJobs == {j \in 1..Len(jobs) : jobs[j].jobstatus = 0}
FirstPending == CHOOSE j \in PendingJobs : \A k \in PendingJobs : j <= k

\* The jobs still running.  A finished job is kept only for the process that
\* holds its jobid: a new invocation cannot ask for it any more.
RECURSIVE StillPending(_)
StillPending(js) ==
    IF js = <<>> THEN <<>>
    ELSE (IF Head(js).jobstatus = 0 THEN <<Head(js)>> ELSE <<>>)
         \o StillPending(Tail(js))

\* The second machine the loop of get_vm matches: line 410 compares the
\* name with v['name'], v['displayname'] and v['id'], so two machines of
\* one project can match.
DupVm == [VmDict("Running", 1) EXCEPT !.id = 2]
\* cs.listVirtualMachines filtered by the test of line 410, in listing order
ListVirtualMachines ==
    (IF pvm.kind = "vm" THEN <<pvm>> ELSE <<>>)
    \o (IF dup THEN <<DupVm>> ELSE <<>>)

\* cs.queryAsyncJobResult(jobid=j)
QueryAsyncJobResult(j) == [jobstatus |-> jobs[j].jobstatus,
                           hasresult |-> jobs[j].jobstatus # 0,
                           jobresult |-> jobs[j].jobresult]
NoRes == [jobstatus |-> 0, hasresult |-> FALSE, jobresult |-> NoResult]

\* the virtual machine a successfully completed job leaves behind
JobEffect(job, cur) ==
    CASE job.cmd = "deployVirtualMachine"  -> VmDict("Running", job.arg)
      [] job.cmd = "startVirtualMachine"   -> [cur EXCEPT !.state = "Running"]
      [] job.cmd = "stopVirtualMachine"    -> [cur EXCEPT !.state = "Stopped"]
      [] job.cmd = "rebootVirtualMachine"  -> [cur EXCEPT !.state = "Running"]
      [] job.cmd = "destroyVirtualMachine" -> [cur EXCEPT !.state = "Destroyed"]
      [] job.cmd = "scaleVirtualMachine"   ->
             [cur EXCEPT !.serviceofferingid = job.arg]
      [] OTHER                             -> NoneV
\* the virtualmachine entry of the job result (none for expunge and scale)
JobSnapshot(job, cur) ==
    CASE job.cmd \in {"expungeVirtualMachine", "scaleVirtualMachine"} -> NoneV
      [] job.cmd = "destroyVirtualMachineExpunge" ->
             [cur EXCEPT !.state = "Expunging"]
      [] OTHER -> JobEffect(job, cur)
\* a job can succeed when its target exists (deploy: when the name is free)
JobCanSucceed(job, cur) ==
    IF job.cmd = "deployVirtualMachine" THEN cur.kind = "none"
    ELSE cur.kind = "vm" /\ cur.id = job.id
\* the machines of the name after a job: when the first is gone the second,
\* if there is one, is the first of the listing
FirstListed(eff) == IF eff.kind = "none" /\ dup THEN DupVm ELSE eff
StillDup(eff) == dup /\ eff.kind # "none"
MayEndInError(job) ==
    job.cmd \notin {"expungeVirtualMachine", "scaleVirtualMachine",
                    "destroyVirtualMachineExpunge"}

\* The provider finishes its oldest pending job: with success, with an
\* errortext, or leaving the machine in the Error state.
JobComplete ==
    /\ PendingJobs # {}
    /\ LET j == FirstPending
           job == jobs[j]
       IN \/ /\ JobCanSucceed(job, pvm)
             /\ pvm' = FirstListed(JobEffect(job, pvm))
             /\ dup' = StillDup(JobEffect(job, pvm))
             /\ jobs' = [jobs EXCEPT ![j].jobstatus = 1,
                           ![j].jobresult = [errortext |-> "",
                               virtualmachine |-> JobSnapshot(job, pvm)]]
          \/ /\ JobCanSucceed(job, pvm)
             /\ MayEndInError(job)
             /\ pvm' = [JobEffect(job, pvm) EXCEPT !.state = "Error"]
             /\ dup' = dup
             /\ jobs' = [jobs EXCEPT ![j].jobstatus = 1,
                           ![j].jobresult = [errortext |-> "",
                               virtualmachine |-> pvm']]
          \/ \E e \in JobErrors :
                /\ pvm' = pvm
                /\ dup' = dup
                /\ jobs' = [jobs EXCEPT ![j].jobstatus = 2,
                              ![j].jobresult = [errortext |-> e,
                                  virtualmachine |-> NoneV]]
    /\ UNCHANGED cvars

\* answers of a mutating call: the jobs after it and the response dict
Answers(cmd, arg) ==
    {[jobs |-> Append(jobs, NewJob(cmd, arg)),
      resp |-> JobResp(Len(jobs) + 1)]}
    \cup {[jobs |-> jobs, resp |-> ErrResp(e)] : e \in ApiErrors}

\* ------------------------------------------------- conditions of the code
\* get_service_offering_id: 0 when the name is not listed
ServiceOfferingId(so) ==
    IF so = 0 THEN Offerings[1]
    ELSE IF \E i \in 1..Len(Offerings) : Offerings[i] = so THEN so
    ELSE 0
\* get_template_or_iso_id, the two fail_json guards
TemplateIsoError_Mutant(template, iso) ==
    IF ~template /\ ~iso THEN "Template or ISO is required." ELSE ""
TemplateIsoError(template, iso) ==
    IF ~template /\ ~iso THEN "Template or ISO is required."
    ELSE IF template /\ iso THEN "Template are ISO are mutually exclusive."
    ELSE ""
\* get_vm: self.vm is a cache, the listing is read only while it is empty
GetVmLists(cache) == ~Truthy(cache)
FirstMatch(listing) == IF listing = <<>> THEN NoneV ELSE Head(listing)
GetVmValue(cache, listing) ==
    IF Truthy(cache) THEN cache ELSE FirstMatch(listing)
\* scale_vm line 490
ScaleNeeded(v, so) == v.serviceofferingid # so
\* scale_vm line 499
StartAfterScale(st) == st = "running"
\* remove_vm line 508
RemoveNeeded_Mutant(v) == Lower(v.state) \notin {"expunging", "destroying"}
RemoveNeeded_Always(v) == Lower(v.state) \notin {"expunging", "destroyed"}
RemoveNeeded(v) == Lower(v.state) \notin {"expunging", "destroying", "destroyed"}
\* expunge_vm lines 526 and 531
ExpungeOnly_Mutant(v) == Lower(v.state) \in {"destroyed"}
ExpungeOnly(v) == Lower(v.state) \in {"destroying", "destroyed"}
ExpungeDestroy(v) == Lower(v.state) \notin {"expunging"}
\* stop_vm line 550
StopNeeded_Running(v) == Lower(v.state) = "starting" \/ Lower(v.state) = "running"
StopNeeded_NotRunning(v) == Lower(v.state) # "running"
StopNeeded(v) == Lower(v.state) = "starting" /\ Lower(v.state) # "running"
\* start_vm line 569
StartNeeded_Mutant(v) == Lower(v.state) = "stopped"
StartNeeded(v) == Lower(v.state) = "stopped" \/ Lower(v.state) = "stopping"
\* restart_vm lines 589 and 597
RestartNeeded_Mutant(v) == Lower(v.state) \in {"running", "starting", "stopping"}
RestartNeeded(v) == Lower(v.state) \in {"running", "starting"}
RestartRefused(v) == Lower(v.state) \in {"stopping", "stopped"}
\* main line 676
InErrorState_Mutant(v) == HasKey(v, "state") /\ v.state = "error"
InErrorState(v) == HasKey(v, "state") /\ v.state = "Error"

\* _poll_job, the body of one turn of the loop
PollKey == "virtualmachine"
PollOutcome_NoExtract(job, key, r) ==
    IF r.jobstatus # 0 /\ r.hasresult
    THEN IF JrHasKey(r.jobresult, "errortext")
         THEN [act |-> "fail", msg |-> r.jobresult.errortext, job |-> job]
         ELSE [act |-> "break", msg |-> "", job |-> job]
    ELSE [act |-> "sleep", msg |-> "", job |-> job]
PollOutcome_Retry(job, key, r) ==
    IF r.jobstatus # 0 /\ r.hasresult /\ ~JrHasKey(r.jobresult, "errortext")
    THEN IF key # "" /\ JrHasKey(r.jobresult, key)
         THEN [act |-> "break", msg |-> "", job |-> JrGet(r.jobresult, key)]
         ELSE [act |-> "break", msg |-> "", job |-> job]
    ELSE [act |-> "sleep", msg |-> "", job |-> job]
PollOutcome_OnlySuccess(job, key, r) ==
    IF r.jobstatus = 1 /\ r.hasresult
    THEN IF key # "" /\ JrHasKey(r.jobresult, key)
         THEN [act |-> "break", msg |-> "", job |-> JrGet(r.jobresult, key)]
         ELSE [act |-> "break", msg |-> "", job |-> job]
    ELSE [act |-> "sleep", msg |-> "", job |-> job]
PollOutcome(job, key, r) ==
    IF r.jobstatus # 0 /\ r.hasresult
    THEN IF JrHasKey(r.jobresult, "errortext")
         THEN [act |-> "fail", msg |-> r.jobresult.errortext, job |-> job]
         ELSE IF key # "" /\ JrHasKey(r.jobresult, key)
              THEN [act |-> "break", msg |-> "", job |-> JrGet(r.jobresult, key)]
              ELSE [act |-> "break", msg |-> "", job |-> job]
    ELSE [act |-> "sleep", msg |-> "", job |-> job]
\* _poll_job line 321: the loop is entered only for a response with a jobid
EnterPoll_Always(job, ret) == "poll"
EnterPoll(job, ret) == IF HasKey(job, "jobid") THEN "poll" ELSE ret

\* module.fail_json / an uncaught exception: the process ends at once
Failed(kind, msg) == [status |-> "failed", changed |-> FALSE, kind |-> kind,
                      msg |-> msg, vm_state |-> ""]
\* module.exit_json(**result)
Exited_Unchanged(ch, v) ==
    [status |-> "ok", changed |-> FALSE, kind |-> "", msg |-> "",
     vm_state |-> IF HasKey(v, "state") THEN v.state ELSE ""]
Exited(ch, v) == [status |-> "ok", changed |-> ch, kind |-> "", msg |-> "",
                  vm_state |-> IF HasKey(v, "state") THEN v.state ELSE ""]


\* ------------------------------------------------------------------ Init
Init ==
    /\ pvm \in {NoneV} \cup {VmDict(st, so) : st \in VmStates, so \in {1, 2}}
    /\ dup \in {d \in BOOLEAN :
                  d => (pvm.kind = "vm" /\ pvm.serviceofferingid
                                             = DupVm.serviceofferingid)}
    /\ jobs = <<>>
    /\ params = NoPrev.params
    /\ run = 0
    /\ pc = "idle"
    /\ caller = "main"
    /\ poll_ret = "main_result"
    /\ self_vm = NoneV
    /\ vm = NoneV
    /\ vm_state = ""
    /\ res = NoRes
    /\ changed = FALSE
    /\ result = NoReport
    /\ calls = <<>>
    /\ errseen = FALSE
    /\ start = [pvm |-> NoneV, pending |-> FALSE, njobs |-> 0, dup |-> FALSE]
    /\ prev = NoPrev

\* fail_json, or an exception nobody catches: the invocation is over
Fail(kind, msg) ==
    /\ result' = Failed(kind, msg)
    /\ pc' = "idle"
    /\ errseen' = TRUE

\* The module is invoked: AnsibleModule(...), the constructors of lines
\* 176-189 and 336-341, main lines 630-632.  A later invocation repeats the
\* task of the playbook, in check mode or not.
Invoke ==
    /\ pc = "idle"
    /\ run < MaxRuns
    /\ \E p \in Params :
          /\ run > 0 => \E c \in BOOLEAN : p = [params EXCEPT !.check_mode = c]
          /\ params' = p
    /\ run' = run + 1
    /\ pc' = "main"
    /\ caller' = "main"
    /\ poll_ret' = "main_result"
    /\ self_vm' = NoneV
    /\ vm' = NoneV
    /\ vm_state' = ""
    /\ res' = NoRes
    /\ changed' = FALSE
    /\ result' = NoReport
    /\ calls' = <<>>
    /\ errseen' = FALSE
    /\ jobs' = StillPending(jobs)
    /\ pvm' = pvm
    /\ dup' = dup
    /\ start' = [pvm |-> pvm, pending |-> PendingJobs # {},
                 njobs |-> Len(jobs'), dup |-> dup]
    /\ prev' = IF run = 0 THEN NoPrev
               ELSE [valid |-> TRUE, params |-> params, result |-> result,
                     calls |-> calls, errseen |-> errseen,
                     start |-> start]

\* main lines 650-672: look the machine up, then dispatch on `state`
Dispatch(st, v) ==
    IF st \in {"absent", "destroyed"} THEN "remove_vm"
    ELSE IF st \in {"expunged"} THEN "expunge_vm"
    ELSE IF st \in {"present", "created"}
         THEN (IF ~Truthy(v) THEN "create_vm" ELSE "scale_vm")
    ELSE IF st \in {"stopped", "halted"} THEN "stop_vm"
    ELSE IF st \in {"started", "running", "booted"} THEN "start_vm"
    ELSE IF st \in {"restarted", "rebooted"} THEN "restart_vm"
    ELSE "main_result"

Main ==
    /\ pc = "main"
    /\ calls' = Append(calls, "listVirtualMachines")
    /\ self_vm' = GetVmValue(self_vm, ListVirtualMachines)
    /\ vm' = self_vm'
    /\ pc' = Dispatch(params.state, vm')
    /\ UNCHANGED <<pvars, params, run, caller, poll_ret, vm_state, res,
                   changed, result, errseen, start, prev>>

\* `vm = self.get_vm()` at the head of every method (lines 400-413)
MethodEntries == {"remove_vm", "expunge_vm", "create_vm", "scale_vm",
                  "stop_vm", "start_vm", "restart_vm"}
Body(m) ==
    CASE m = "remove_vm"  -> "remove_vm_body"
      [] m = "expunge_vm" -> "expunge_vm_body"
      [] m = "create_vm"  -> "create_vm_body"
      [] m = "scale_vm"   -> "scale_vm_body"
      [] m = "stop_vm"    -> "stop_vm_body"
      [] m = "start_vm"   -> "start_vm_body"
      [] OTHER            -> "restart_vm_body"
GetVm ==
    /\ pc \in MethodEntries
    /\ calls' = IF GetVmLists(self_vm)
                THEN Append(calls, "listVirtualMachines") ELSE calls
    /\ self_vm' = GetVmValue(self_vm, ListVirtualMachines)
    /\ vm' = self_vm'
    /\ pc' = Body(pc)
    /\ UNCHANGED <<pvars, params, run, caller, poll_ret, vm_state, res,
                   changed, result, errseen, start, prev>>

\* _poll_job lines 322-330: one queryAsyncJobResult.  While the job is
\* pending the loop sleeps and asks again (at most MaxPolls such answers
\* are explored per invocation).
PollJob ==
    /\ pc = "poll"
    /\ jobs[vm.jobid].jobstatus # 0 \/ Polls(calls) < MaxPolls
    /\ calls' = Append(calls, PollCall)
    /\ res' = QueryAsyncJobResult(vm.jobid)
    /\ errseen' = (errseen \/ JrHasKey(res'.jobresult, "errortext"))
    /\ LET o == PollOutcome(vm, PollKey, res')
       IN \/ /\ o.act = "fail"
             /\ result' = Failed("OperationFailed", o.msg)
             /\ pc' = "idle"
             /\ UNCHANGED vm
          \/ /\ o.act = "break"
             /\ vm' = o.job
             /\ pc' = poll_ret
             /\ UNCHANGED result
          \/ /\ o.act = "sleep"
             /\ UNCHANGED <<vm, pc, result>>
    /\ UNCHANGED <<pvars, params, run, caller, poll_ret, self_vm, vm_state,
                   changed, start, prev>>

\* where stop_vm / start_vm return to
AfterStop == IF caller = "main" THEN "main_result" ELSE "scale_after_stop"
AfterStart == IF caller = "main" THEN "main_result" ELSE "scale_after_start"

\* stop_vm lines 547-561
StopVm ==
    /\ pc = "stop_vm_body"
    /\ IF ~Truthy(vm)
       THEN /\ Fail("NotFound", "Virtual machine not found")
            /\ UNCHANGED <<pvars, vm, changed, calls, poll_ret>>
       ELSE IF ~StopNeeded(vm)
       THEN /\ pc' = AfterStop
            /\ UNCHANGED <<pvars, vm, changed, calls, poll_ret, result, errseen>>
       ELSE /\ changed' = TRUE
            /\ IF params.check_mode
               THEN /\ pc' = AfterStop
                    /\ UNCHANGED <<pvars, vm, calls, poll_ret, result, errseen>>
               ELSE \E a \in Answers("stopVirtualMachine", 0) :
                      /\ jobs' = a.jobs
                      /\ pvm' = pvm
                      /\ dup' = dup
                      /\ calls' = Append(calls, "stopVirtualMachine")
                      /\ vm' = a.resp
                      /\ IF HasKey(a.resp, "errortext")
                         THEN /\ Fail("OperationFailed", a.resp.errortext)
                              /\ UNCHANGED poll_ret
                         ELSE /\ poll_ret' = AfterStop
                              /\ pc' = IF params.poll_async
                                       THEN EnterPoll(a.resp, AfterStop)
                                       ELSE AfterStop
                              /\ UNCHANGED <<result, errseen>>
    /\ UNCHANGED <<params, run, caller, self_vm, vm_state, res, start, prev>>

\* main lines 674-729: the error-state check and the report
MainResult ==
    /\ pc = "main_result"
    /\ IF Truthy(vm) /\ InErrorState(vm)
       THEN Fail("ResourceInError", "Virtual machine in error state.")
       ELSE /\ result' = Exited(changed, vm)
            /\ pc' = "idle"
            /\ UNCHANGED errseen
    /\ UNCHANGED <<pvars, params, run, caller, poll_ret, self_vm, vm,
                   vm_state, res, changed, calls, start, prev>>


\* start_vm lines 565-581
StartVm ==
    /\ pc = "start_vm_body"
    /\ IF ~Truthy(vm)
       THEN /\ Fail("NotFound", "Virtual machine not found")
            /\ UNCHANGED <<pvars, vm, changed, calls, poll_ret>>
       ELSE IF ~StartNeeded(vm)
       THEN /\ pc' = AfterStart
            /\ UNCHANGED <<pvars, vm, changed, calls, poll_ret, result, errseen>>
       ELSE /\ changed' = TRUE
            /\ IF params.check_mode
               THEN /\ pc' = AfterStart
                    /\ UNCHANGED <<pvars, vm, calls, poll_ret, result, errseen>>
               ELSE \E a \in Answers("startVirtualMachine", 0) :
                      /\ jobs' = a.jobs
                      /\ pvm' = pvm
                      /\ dup' = dup
                      /\ calls' = Append(calls, "startVirtualMachine")
                      /\ vm' = a.resp
                      /\ IF HasKey(a.resp, "errortext")
                         THEN /\ Fail("OperationFailed", a.resp.errortext)
                              /\ UNCHANGED poll_ret
                         ELSE /\ poll_ret' = AfterStart
                              /\ pc' = IF params.poll_async
                                       THEN EnterPoll(a.resp, AfterStart)
                                       ELSE AfterStart
                              /\ UNCHANGED <<result, errseen>>
    /\ UNCHANGED <<params, run, caller, self_vm, vm_state, res, start, prev>>

\* restart_vm lines 585-599; the response of rebootVirtualMachine is not
\* tested for errortext
RestartVm ==
    /\ pc = "restart_vm_body"
    /\ IF ~Truthy(vm)
       THEN /\ Fail("NotFound", "Virtual machine not found")
            /\ UNCHANGED <<pvars, vm, changed, calls, poll_ret>>
       ELSE IF RestartNeeded(vm)
       THEN /\ changed' = TRUE
            /\ IF params.check_mode
               THEN /\ pc' = "main_result"
                    /\ UNCHANGED <<pvars, vm, calls, poll_ret, result, errseen>>
               ELSE \E a \in Answers("rebootVirtualMachine", 0) :
                      /\ jobs' = a.jobs
                      /\ pvm' = pvm
                      /\ dup' = dup
                      /\ calls' = Append(calls, "rebootVirtualMachine")
                      /\ vm' = a.resp
                      /\ errseen' = (errseen \/ HasKey(a.resp, "errortext"))
                      /\ poll_ret' = "main_result"
                      /\ pc' = IF params.poll_async
                               THEN EnterPoll(a.resp, "main_result")
                               ELSE "main_result"
                      /\ UNCHANGED result
       ELSE IF RestartRefused(vm)
       THEN /\ Fail("InvalidTransition", "Virtual machine not running, not restarted")
            /\ UNCHANGED <<pvars, vm, changed, calls, poll_ret>>
       ELSE /\ pc' = "main_result"
            /\ UNCHANGED <<pvars, vm, changed, calls, poll_ret, result, errseen>>
    /\ UNCHANGED <<params, run, caller, self_vm, vm_state, res, start, prev>>

\* remove_vm lines 506-519
RemoveVm ==
    /\ pc = "remove_vm_body"
    /\ IF Truthy(vm) /\ RemoveNeeded(vm)
       THEN /\ changed' = TRUE
            /\ IF params.check_mode
               THEN /\ pc' = "main_result"
                    /\ UNCHANGED <<pvars, vm, calls, poll_ret, result, errseen>>
               ELSE \E a \in Answers("destroyVirtualMachine", 0) :
                      /\ jobs' = a.jobs
                      /\ pvm' = pvm
                      /\ dup' = dup
                      /\ calls' = Append(calls, "destroyVirtualMachine")
                      /\ IF HasKey(a.resp, "errortext")
                         THEN /\ Fail("OperationFailed", a.resp.errortext)
                              /\ UNCHANGED <<vm, poll_ret>>
                         ELSE /\ poll_ret' = "main_result"
                              /\ vm' = IF params.poll_async THEN a.resp ELSE vm
                              /\ pc' = IF params.poll_async
                                       THEN EnterPoll(a.resp, "main_result")
                                       ELSE "main_result"
                              /\ UNCHANGED <<result, errseen>>
       ELSE /\ pc' = "main_result"
            /\ UNCHANGED <<pvars, vm, changed, calls, poll_ret, result, errseen>>
    /\ UNCHANGED <<params, run, caller, self_vm, vm_state, res, start, prev>>

\* expunge_vm lines 523-542: `res` starts as {} and is polled whenever
\* poll_async is set
ExpungeCmd(v) ==
    IF ExpungeOnly(v) THEN "expungeVirtualMachine"
    ELSE IF ExpungeDestroy(v) THEN "destroyVirtualMachineExpunge"
    ELSE ""
ExpungeVm ==
    /\ pc = "expunge_vm_body"
    /\ IF ~Truthy(vm)
       THEN /\ pc' = "main_result"
            /\ UNCHANGED <<pvars, vm, changed, calls, poll_ret, result, errseen>>
       ELSE IF ExpungeCmd(vm) = "" \/ params.check_mode
       THEN /\ changed' = (changed \/ ExpungeCmd(vm) # "")
            /\ vm' = IF params.poll_async THEN EmptyDict ELSE vm
            /\ pc' = "main_result"
            /\ UNCHANGED <<pvars, calls, poll_ret, result, errseen>>
       ELSE /\ changed' = TRUE
            /\ \E a \in Answers(ExpungeCmd(vm), 0) :
                  /\ jobs' = a.jobs
                  /\ pvm' = pvm
                  /\ dup' = dup
                  /\ calls' = Append(calls, ExpungeCmd(vm))
                  /\ IF HasKey(a.resp, "errortext")
                     THEN /\ Fail("OperationFailed", a.resp.errortext)
                          /\ UNCHANGED <<vm, poll_ret>>
                     ELSE /\ poll_ret' = "main_result"
                          /\ vm' = IF params.poll_async THEN a.resp ELSE vm
                          /\ pc' = IF params.poll_async
                                   THEN EnterPoll(a.resp, "main_result")
                                   ELSE "main_result"
                          /\ UNCHANGED <<result, errseen>>
    /\ UNCHANGED <<params, run, caller, self_vm, vm_state, res, start, prev>>

\* create_vm lines 435-472: the lookups that fill `args`, in the order the
\* code evaluates them
CreateLookups(p) ==
    <<IF p.template THEN "listTemplates" ELSE "listIsos", "listZones",
      "listServiceOfferings">>
    \o (IF p.networks THEN <<"listNetworks", "listHypervisors">> ELSE <<>>)
CreateVm ==
    /\ pc = "create_vm_body"
    /\ IF Truthy(vm)
       THEN /\ pc' = "main_result"
            /\ UNCHANGED <<changed, calls, result, errseen>>
       ELSE /\ changed' = TRUE
            /\ IF TemplateIsoError(params.template, params.iso) # ""
               THEN /\ Fail("InvalidSpec",
                            TemplateIsoError(params.template, params.iso))
                    /\ UNCHANGED calls
               ELSE IF ServiceOfferingId(params.service_offering) = 0
               THEN /\ Fail("NotFound", "Service offering not found")
                    /\ calls' = calls \o SubSeq(CreateLookups(params), 1, 3)
               ELSE IF ~params.networks
               THEN \* ','.join(None) at line 444
                    /\ Fail("TypeError", "join")
                    /\ calls' = calls \o CreateLookups(params)
               ELSE /\ calls' = calls \o CreateLookups(params)
                    /\ pc' = IF params.check_mode THEN "main_result"
                             ELSE "create_deploy"
                    /\ UNCHANGED <<result, errseen>>
    /\ UNCHANGED <<pvars, params, run, caller, poll_ret, self_vm, vm,
                   vm_state, res, start, prev>>

\* create_vm lines 474-483
CreateDeploy ==
    /\ pc = "create_deploy"
    /\ \E a \in Answers("deployVirtualMachine",
                        ServiceOfferingId(params.service_offering)) :
          /\ jobs' = a.jobs
          /\ pvm' = pvm
          /\ dup' = dup
          /\ calls' = Append(calls, "deployVirtualMachine")
          /\ vm' = a.resp
          /\ IF HasKey(a.resp, "errortext")
             THEN /\ Fail("OperationFailed", a.resp.errortext)
                  /\ UNCHANGED poll_ret
             ELSE /\ poll_ret' = "main_result"
                  /\ pc' = IF params.poll_async
                           THEN EnterPoll(a.resp, "main_result")
                           ELSE "main_result"
                  /\ UNCHANGED <<result, errseen>>
    /\ UNCHANGED <<params, run, caller, self_vm, vm_state, res, changed,
                   start, prev>>

\* scale_vm lines 487-494: the offering lookup, the comparison, and the
\* call of stop_vm
ScaleVm ==
    /\ pc = "scale_vm_body"
    /\ IF ~Truthy(vm)
       THEN /\ pc' = "main_result"
            /\ UNCHANGED <<changed, calls, result, errseen, vm_state, caller>>
       ELSE /\ calls' = Append(calls, "listServiceOfferings")
            /\ IF ServiceOfferingId(params.service_offering) = 0
               THEN /\ Fail("NotFound", "Service offering not found")
                    /\ UNCHANGED <<changed, vm_state, caller>>
               ELSE IF ~ScaleNeeded(vm, ServiceOfferingId(params.service_offering))
               THEN /\ pc' = "main_result"
                    /\ UNCHANGED <<changed, result, errseen, vm_state, caller>>
               ELSE /\ changed' = TRUE
                    /\ IF params.check_mode
                       THEN /\ pc' = "main_result"
                            /\ UNCHANGED <<vm_state, caller>>
                       ELSE /\ vm_state' = Lower(vm.state)
                            /\ caller' = "scale_vm"
                            /\ pc' = "stop_vm"
                    /\ UNCHANGED <<result, errseen>>
    /\ UNCHANGED <<pvars, params, run, poll_ret, self_vm, vm, res, start, prev>>

\* scale_vm line 495: `vm = self._poll_job(vm, 'virtualmachine')`
ScaleAfterStop ==
    /\ pc = "scale_after_stop"
    /\ poll_ret' = "scale_call"
    /\ pc' = EnterPoll(vm, "scale_call")
    /\ UNCHANGED <<pvars, params, run, caller, self_vm, vm, vm_state, res,
                   changed, result, calls, errseen, start, prev>>

\* scale_vm lines 496-500: the response of scaleVirtualMachine is dropped
ScaleCall ==
    /\ pc = "scale_call"
    /\ IF ~HasKey(vm, "id")
       THEN /\ Fail("KeyError", "id")
            /\ UNCHANGED <<pvars, calls>>
       ELSE \E a \in Answers("scaleVirtualMachine",
                             ServiceOfferingId(params.service_offering)) :
              /\ jobs' = a.jobs
              /\ pvm' = pvm
              /\ dup' = dup
              /\ calls' = Append(calls, "scaleVirtualMachine")
              /\ errseen' = (errseen \/ HasKey(a.resp, "errortext"))
              /\ pc' = IF StartAfterScale(vm_state) THEN "start_vm"
                       ELSE "main_result"
              /\ UNCHANGED result
    /\ UNCHANGED <<params, run, caller, poll_ret, self_vm, vm, vm_state, res,
                   changed, start, prev>>

\* scale_vm line 501
ScaleAfterStart ==
    /\ pc = "scale_after_start"
    /\ poll_ret' = "main_result"
    /\ pc' = EnterPoll(vm, "main_result")
    /\ UNCHANGED <<pvars, params, run, caller, self_vm, vm, vm_state, res,
                   changed, result, calls, errseen, start, prev>>

Next ==
    \/ Invoke
    \/ Main
    \/ GetVm
    \/ CreateVm
    \/ CreateDeploy
    \/ ScaleVm
    \/ ScaleAfterStop
    \/ ScaleCall
    \/ ScaleAfterStart
    \/ RemoveVm
    \/ ExpungeVm
    \/ StopVm
    \/ StartVm
    \/ RestartVm
    \/ PollJob
    \/ MainResult
    \/ JobComplete

Spec == Init /\ [][Next]_vars

TypeOK ==
    /\ pc \in {"idle", "main", "poll", "main_result", "create_deploy",
               "scale_after_stop", "scale_call", "scale_after_start"}
              \cup MethodEntries \cup {Body(m) : m \in MethodEntries}
    /\ run \in 0..MaxRuns
    /\ params \in Params
    /\ changed \in BOOLEAN
    /\ dup \in BOOLEAN


\* ---------------------------------------------------------------- claims
Done == pc = "idle" /\ run > 0
Succeeded == Done /\ result.status = "ok"
Normal == ~params.check_mode
Issued(c) == CountIn(calls, {c}) > 0
PrevIssued(c) == CountIn(prev.calls, {c}) > 0

\* the previous invocation succeeded in normal mode and this one repeats it
\* in normal mode (Invoke keeps every other parameter)
Repeats == /\ run > 1
           /\ prev.valid
           /\ prev.result.status = "ok"
           /\ ~prev.params.check_mode
           /\ ~params.check_mode

\* C1 as stated: a repeated invocation issues no mutating call and reports
\* changed=false, whatever the desired state (read with poll_async at its
\* default, set, and a first run the provider answered without any error).
C1_Original ==
    (Repeats /\ prev.params.poll_async /\ ~prev.errseen)
    => /\ Mutations(calls) = 0
       /\ Done => (result.status = "ok" /\ ~result.changed)

\* C1 (amended): idempotence holds for every desired state other than
\* restarted, when poll_async is set, the first run had no offering
\* change to make and its listing held no second machine of the name: the
\* repeated run issues no mutating call and reports changed=false.
C1_Idempotent ==
    (/\ Repeats
     /\ prev.params.state \notin {"restarted", "rebooted"}
     /\ prev.params.poll_async
     /\ ~PrevIssued("scaleVirtualMachine")
     /\ ~prev.start.dup)
    => /\ Mutations(calls) = 0
       /\ Done => (result.status = "ok" /\ ~result.changed)
C1_Witness ==
    /\ Repeats /\ Done
    /\ prev.params.state \notin {"restarted", "rebooted"}
    /\ prev.params.poll_async
    /\ ~PrevIssued("scaleVirtualMachine")
    /\ ~prev.start.dup
    /\ Mutations(prev.calls) > 0
    /\ prev.result.changed
    /\ result.status = "ok" /\ ~result.changed


\* the machine the lookup of this invocation found
Observed(st) == self_vm.kind = "vm" /\ self_vm.state = st
CreatedOrPresent == params.state \in {"created", "present"}

\* C2: a scale that ran to a successful end leaves a machine that was
\* observed Running in state Running and one observed Stopped in state
\* Stopped.
C2_ScaleKeepsRunState ==
    (Succeeded /\ Normal /\ CreatedOrPresent /\ Issued("scaleVirtualMachine"))
    => /\ Observed("Running") => pvm.state = "Running"
       /\ Observed("Stopped") => pvm.state = "Stopped"
C2_Witness ==
    /\ Succeeded /\ Normal /\ CreatedOrPresent
    /\ Issued("scaleVirtualMachine")
    /\ Observed("Running")
    /\ vm_state = "running"
    /\ pvm.state = "Running"
    /\ pvm.serviceofferingid # self_vm.serviceofferingid

\* C3 as stated: a check-only run issues no mutating and no polling call,
\* and reports changed=true exactly when the same scenario in normal mode
\* issues a mutating call.
C3_CheckMode ==
    /\ params.check_mode => (Mutations(calls) = 0 /\ Polls(calls) = 0)
    /\ (run > 1 /\ prev.valid /\ prev.params.check_mode /\ ~prev.start.pending
        /\ ~params.check_mode /\ Done)
       => ((prev.result.status = "ok" /\ prev.result.changed)
           <=> Mutations(calls) > 0)

\* C4 as stated: desired stopped on a machine observed Running or Starting
\* submits exactly one stop and reports changed=true.
C4_StopContract ==
    (Succeeded /\ Normal /\ params.state \in {"stopped", "halted"}
     /\ (Observed("Running") \/ Observed("Starting")))
    => /\ CountIn(calls, {"stopVirtualMachine"}) = 1
       /\ result.changed

\* C5: desired restarted on a machine observed Stopped or Stopping fails
\* with InvalidTransition and no mutating call; a reboot is only submitted
\* for a machine observed Running or Starting.
C5_RestartGuard ==
    /\ (Done /\ params.state \in {"restarted", "rebooted"}
        /\ (Observed("Stopped") \/ Observed("Stopping")))
       => /\ result.status = "failed"
          /\ result.kind = "InvalidTransition"
          /\ Mutations(calls) = 0
    /\ Issued("rebootVirtualMachine")
       => (Observed("Running") \/ Observed("Starting"))
C5_Witness ==
    /\ Done /\ params.state = "restarted" /\ Observed("Stopped")
    /\ result.kind = "InvalidTransition"
    /\ Mutations(calls) = 0

\* C6: desired stopped on a machine observed Stopped issues no mutating
\* and no polling call, reports changed=false and submits nothing to the
\* provider.
C6_StopNoOp ==
    (params.state \in {"stopped", "halted"} /\ Observed("Stopped"))
    => /\ Mutations(calls) = 0
       /\ Polls(calls) = 0
       /\ Len(jobs) = start.njobs
       /\ ~start.pending => pvm = start.pvm
       /\ Done => (result.status = "ok" /\ ~result.changed)
C6_Witness ==
    /\ Done /\ Normal /\ params.state = "stopped" /\ Observed("Stopped")
    /\ result.status = "ok" /\ ~result.changed
    /\ calls = <<"listVirtualMachines">>


BothOrNeither == params.template <=> params.iso

PollAnswered == pc = "poll" /\ calls' # calls /\ jobs[vm.jobid].jobstatus # 0
C8_TerminalExtraction ==
    [][PollAnswered =>
         LET jr == jobs[vm.jobid].jobresult
         IN IF jr.errortext # ""
            THEN /\ result'.status = "failed"
                 /\ result'.kind = "OperationFailed"
                 /\ result'.msg = jr.errortext
                 /\ pc' = "idle"
                 /\ vm' = vm
            ELSE /\ jr.virtualmachine.kind # "none"
                    => vm' = jr.virtualmachine
                 /\ pc' = poll_ret
                 /\ result' = result]_vars
C8_Witness ==
    /\ Polls(calls) > 0
    /\ res.jobstatus = 1
    /\ res.jobresult.virtualmachine.kind = "vm"
    /\ vm = res.jobresult.virtualmachine
    /\ pc = poll_ret

\* C9: an invocation whose operation came back with a machine in state
\* Error fails with ResourceInError, and no invocation reports success
\* with vm_state Error.
C9_ResourceInError ==
    /\ Succeeded => result.vm_state # "Error"
    /\ (Done /\ Polls(calls) > 0 /\ res.jobstatus = 1
        /\ vm = res.jobresult.virtualmachine /\ vm.state = "Error")
       => (result.status = "failed" /\ result.kind = "ResourceInError")
C9_Witness ==
    /\ Done /\ Mutations(calls) > 0 /\ Polls(calls) > 0
    /\ res.jobstatus = 1
    /\ vm = res.jobresult.virtualmachine /\ vm.state = "Error"
    /\ result.kind = "ResourceInError"

\* C10: once an error has occurred in an invocation (a failure raised by
\* the module, or an errortext answered by the provider) the invocation
\* issues no further remote call and submits no further job.
C10_ErrorsTerminal ==
    [][(errseen /\ run' = run)
         => (calls' = calls /\ Len(jobs') = Len(jobs))]_vars
C10_Witness ==
    /\ Done /\ errseen /\ caller = "scale_vm"
    /\ result.kind = "OperationFailed"
    /\ Issued("stopVirtualMachine")
    /\ ~Issued("scaleVirtualMachine")
    /\ ~Issued("startVirtualMachine")

\* C11: a response without a jobid handed to _poll_job comes back unchanged
\* and no queryAsyncJobResult is issued for it: the loop runs only on a
\* response that carries a jobid.
PollSkipped == pc \in {"scale_after_stop", "scale_after_start"}
               /\ ~HasKey(vm, "jobid")
C11_SyncPassthrough ==
    /\ [](pc = "poll" => HasKey(vm, "jobid"))
    /\ [][(PollSkipped /\ pc' # pc)
            => (calls' = calls /\ vm' = vm /\ pc' = poll_ret')]_vars
C11_Witness ==
    /\ pc = "scale_call"
    /\ params.poll_async
    /\ ~Issued("stopVirtualMachine")
    /\ vm = self_vm
    /\ Polls(calls) = 0

\* the mutating calls of this invocation, in order
RECURSIVE MutSeq(_)
MutSeq(s) ==
    IF s = <<>> THEN <<>>
    ELSE (IF Head(s) \in MutatingCalls THEN <<Head(s)>> ELSE <<>>)
         \o MutSeq(Tail(s))
\* a step of this invocation that issues the mutating call c
Submits(c) == run' = run /\ Len(calls') = Len(calls) + 1
              /\ calls'[Len(calls')] = c
\* the jobs this invocation submitted (Invoke keeps the older ones first)
OwnJobs == (start.njobs + 1) .. Len(jobs)
OfferingDiffers ==
    /\ self_vm.kind = "vm"
    /\ ServiceOfferingId(params.service_offering) # 0
    /\ self_vm.serviceofferingid # ServiceOfferingId(params.service_offering)

\* C12 as stated: a scale issues stop (machine observed Running), then the
\* offering change, then start (captured state running), in this order; the
\* offering change is never submitted while the provider reports Running;
\* an identical offering gets none of the three calls.
C12_ScaleSequence ==
    /\ (Succeeded /\ Normal /\ CreatedOrPresent /\ OfferingDiffers)
       => MutSeq(calls) =
            (IF Observed("Running") THEN <<"stopVirtualMachine">> ELSE <<>>)
            \o <<"scaleVirtualMachine">>
            \o (IF Observed("Running") THEN <<"startVirtualMachine">>
                ELSE <<>>)
    /\ (Done /\ CreatedOrPresent /\ self_vm.kind = "vm"
        /\ ServiceOfferingId(params.service_offering)
             = self_vm.serviceofferingid)
       => Mutations(calls) = 0
    /\ (pc = "scale_call" /\ Normal) => pvm.state # "Running"

\* C13 as stated: with polling on, a job returned by a mutating call is
\* pending only while the poller is waiting for it: it is finished before
\* the next mutating call is submitted and before the invocation reports.
C13_EveryCallAwaited ==
    (params.poll_async /\ \E j \in OwnJobs : jobs[j].jobstatus = 0)
    => pc = "poll"

\* C14 as stated: a decision to submit or skip a mutating call that follows
\* an operation of the same invocation is taken on a state read after that
\* operation.
DecisionPoints == {"stop_vm_body", "start_vm_body", "restart_vm_body",
                   "remove_vm_body", "expunge_vm_body", "scale_vm_body",
                   "create_vm_body"}
C14_FreshState ==
    (pc \in DecisionPoints /\ Mutations(calls) > 0)
    => /\ calls[Len(calls)] = "listVirtualMachines"
       /\ vm.state = pvm.state

\* C15 as stated: a mutating call answered with an errortext (the call
\* creates no job) ends the invocation with OperationFailed at once.
Rejected == Mutations(calls) > Len(jobs) - start.njobs
C15_SyncErrorsDetected ==
    Rejected => (pc = "idle" /\ result.status = "failed"
                 /\ result.kind = "OperationFailed")

\* The provider finishes every job it accepted, and the poller's loop keeps
\* running (time.sleep(2) returns): the scheduling under which _poll_job is
\* claimed to terminate.
FairSpec == Spec /\ WF_vars(JobComplete) /\ WF_vars(PollJob)

\* C16: for a response with a jobid the poller issues only job-status
\* queries while the job is pending, leaves the loop at the first query
\* answered with a status other than pending, and, the provider finishing
\* the job, always leaves the loop.
PollsPending == pc = "poll" /\ calls' # calls /\ jobs[vm.jobid].jobstatus = 0
C16_PollerTerminates ==
    /\ (pc = "poll") ~> (pc # "poll")
    /\ [][PollAnswered => pc' # "poll"]_vars
    /\ [][PollsPending => (calls' = Append(calls, PollCall) /\ pc' = "poll"
                           /\ vm' = vm /\ Len(jobs') = Len(jobs))]_vars
C16_Witness ==
    /\ Len(calls) >= 2
    /\ calls[Len(calls) - 1] = PollCall
    /\ calls[Len(calls)] = PollCall
    /\ res.jobstatus # 0
    /\ pc # "poll"

\* the desired machine is well specified: exactly one of template and iso,
\* and a service offering the provider knows
ValidSpec == ~BothOrNeither /\ ServiceOfferingId(params.service_offering) # 0
SameOffering == /\ self_vm.kind = "vm"
                /\ self_vm.serviceofferingid
                     = ServiceOfferingId(params.service_offering)

\* C17 as stated (read for a well specified machine in normal mode): for
\* desired created/present one deployVirtualMachine is submitted when the
\* lookup finds no machine and none when it finds one; a machine found
\* with the requested offering gets no mutating call and changed=false.
C17_CreateVsExisting ==
    /\ Issued("deployVirtualMachine")
       => (CreatedOrPresent /\ self_vm.kind = "none")
    /\ CountIn(calls, {"deployVirtualMachine"}) <= 1
    /\ (Done /\ Normal /\ CreatedOrPresent /\ self_vm.kind = "none"
        /\ ValidSpec)
       => Issued("deployVirtualMachine")
    /\ (Done /\ CreatedOrPresent /\ SameOffering)
       => (Mutations(calls) = 0 /\ ~result.changed)

\* every job this invocation submitted has finished
Awaited == \A j \in OwnJobs : jobs[j].jobstatus # 0

\* C18: desired expunged on an existing machine issues exactly one
\* mutating call unless the machine is Expunging: expungeVirtualMachine
\* for a machine observed Destroying or Destroyed, destroyVirtualMachine
\* with expunge=True otherwise; an Expunging machine gets no mutating call
\* and changed=false; the two calls are never both issued.
C18_ExpungeTransition ==
    /\ (Done /\ Normal /\ params.state = "expunged" /\ self_vm.kind = "vm")
       => /\ MutSeq(calls) =
               IF self_vm.state \in {"Destroying", "Destroyed"}
               THEN <<"expungeVirtualMachine">>
               ELSE IF self_vm.state = "Expunging" THEN <<>>
               ELSE <<"destroyVirtualMachineExpunge">>
          /\ self_vm.state = "Expunging"
             => (~changed /\ result.status = "ok" /\ ~result.changed)
    /\ ~(Issued("expungeVirtualMachine")
         /\ (Issued("destroyVirtualMachineExpunge")
             \/ Issued("destroyVirtualMachine")))
C18_Witness ==
    /\ Done /\ Normal /\ params.state = "expunged"
    /\ Observed("Destroying")
    /\ MutSeq(calls) = <<"expungeVirtualMachine">>
    /\ result.status = "ok" /\ result.changed

DestroyStates == {"Expunging", "Destroying", "Destroyed"}
AbsentOrDestroyed == params.state \in {"absent", "destroyed"}

\* C19 as stated: desired absent/destroyed on an existing machine submits
\* one non-expunging destroy, awaits it and sets changed, exactly when the
\* observed state is none of Expunging, Destroying, Destroyed; otherwise
\* no mutating call and changed=false.
C19_Original ==
    (Done /\ Normal /\ AbsentOrDestroyed /\ self_vm.kind = "vm")
    => IF self_vm.state \notin DestroyStates
       THEN /\ MutSeq(calls) = <<"destroyVirtualMachine">>
            /\ changed
            /\ Succeeded => result.changed
            /\ Awaited
       ELSE /\ Mutations(calls) = 0
            /\ ~changed /\ ~result.changed

\* C19 (amended): as stated, except that the destroy is awaited only when
\* poll_async is set; with poll_async off it is submitted and the
\* invocation reports without waiting for the job.
C19_DestroyTransition ==
    (Done /\ Normal /\ AbsentOrDestroyed /\ self_vm.kind = "vm")
    => IF self_vm.state \notin DestroyStates
       THEN /\ MutSeq(calls) = <<"destroyVirtualMachine">>
            /\ changed
            /\ Succeeded => result.changed
            /\ params.poll_async => Awaited
            /\ (~params.poll_async /\ Len(jobs) > start.njobs)
               => Polls(calls) = 0
       ELSE /\ Mutations(calls) = 0
            /\ ~changed /\ ~result.changed
C19_Witness ==
    /\ Done /\ Normal /\ params.state = "absent" /\ params.poll_async
    /\ Observed("Stopped")
    /\ MutSeq(calls) = <<"destroyVirtualMachine">>
    /\ Polls(calls) > 0 /\ Awaited
    /\ result.status = "ok" /\ result.changed
    /\ pvm.state = "Destroyed"

StartStates == {"Stopped", "Stopping"}

\* C20 as stated: desired started on an existing machine submits one
\* start, awaits it and sets changed, exactly when the observed state is
\* Stopped or Stopping; otherwise no mutating call and changed=false.
C20_Original ==
    (Done /\ Normal /\ params.state = "started" /\ self_vm.kind = "vm")
    => IF self_vm.state \in StartStates
       THEN /\ MutSeq(calls) = <<"startVirtualMachine">>
            /\ changed
            /\ Succeeded => result.changed
            /\ Awaited
       ELSE /\ Mutations(calls) = 0
            /\ ~changed /\ ~result.changed

\* C20 (amended): as stated, except that the start is awaited only when
\* poll_async is set; with poll_async off it is submitted and the
\* invocation reports without waiting for the job.
C20_StartTransition ==
    (Done /\ Normal /\ params.state = "started" /\ self_vm.kind = "vm")
    => IF self_vm.state \in StartStates
       THEN /\ MutSeq(calls) = <<"startVirtualMachine">>
            /\ changed
            /\ Succeeded => result.changed
            /\ params.poll_async => Awaited
            /\ (~params.poll_async /\ Len(jobs) > start.njobs)
               => Polls(calls) = 0
       ELSE /\ Mutations(calls) = 0
            /\ ~changed /\ ~result.changed
C20_Witness ==
    /\ Done /\ Normal /\ params.state = "started" /\ params.poll_async
    /\ Observed("Stopping")
    /\ MutSeq(calls) = <<"startVirtualMachine">>
    /\ Polls(calls) > 0 /\ Awaited
    /\ result.status = "ok" /\ result.changed
    /\ pvm.state = "Running"

\* the listing this invocation looks the machine up in holds two matches
Ambiguous == run > 0 /\ start.dup /\ ~start.pending

\* C21 as stated: when the listing holds more than one machine matching the
\* name, the invocation fails and issues no mutating call.
C21_AmbiguousLookupFails ==
    Ambiguous => /\ Mutations(calls) = 0
                 /\ Done => result.status = "failed"

\* C22: an invocation in normal mode that ends successfully reports
\* changed=true exactly when it issued at least one mutating call.
C22_ChangedIffMutated ==
    (Succeeded /\ Normal) => (result.changed <=> Mutations(calls) > 0)
C22_Witness ==
    /\ Succeeded /\ Normal /\ CreatedOrPresent
    /\ OfferingDiffers
    /\ result.changed
    /\ MutSeq(calls) = <<"stopVirtualMachine", "scaleVirtualMachine">>

\* C23 as stated: against a machine observed Destroying, Destroyed or
\* Expunging the only mutating call an invocation issues is
\* expungeVirtualMachine, for desired expunged on Destroying/Destroyed;
\* desired created/present submits no stop, scale or start against it.
C23_GoneMachineUntouched ==
    (self_vm.kind = "vm" /\ self_vm.state \in DestroyStates)
    => \/ Mutations(calls) = 0
       \/ /\ params.state = "expunged"
          /\ self_vm.state \in {"Destroying", "Destroyed"}
          /\ MutSeq(calls) = <<"expungeVirtualMachine">>

\* C24 as stated: with poll_async disabled an invocation issues no
\* queryAsyncJobResult, whatever the desired state and the observed
\* machine, and is never inside the polling loop.
C24_NoPollWhenDisabled ==
    (run > 0 /\ ~params.poll_async) => (Polls(calls) = 0 /\ pc # "poll")

====
